---- MODULE Spec2Model ----
(***************************************************************************)
(* The streaming text-to-speech server of inference_server.py together     *)
(* with the generation gateway of llasa_model.py.                          *)
(*                                                                         *)
(* The server is one asyncio event loop (uvicorn.run, one process).  Every *)
(* websocket connection is served by one coroutine, websocket_endpoint;    *)
(* every upload by one coroutine, upload_reference_audio.  A coroutine     *)
(* runs without interruption from one await to the next, so an action of   *)
(* the model is one such stretch.  generate_audio is an ordinary           *)
(* (synchronous) call made from inside the coroutine: while it runs the    *)
(* thread of the event loop is inside it.  The call is therefore split in  *)
(* two actions, its entry and its return, so that "a generation is in      *)
(* progress" is a state of the model.                                      *)
(*                                                                         *)
(* Three specifications share the variables.  Spec is the server.          *)
(* SpecCodec is the audio frame codec alone: the server's encoding and the *)
(* page's decoding of int16 samples.  SpecClient is the page of            *)
(* inference_client_webrtc.py: send_text in the script thread, main and    *)
(* audio_listener in the background thread, with the server as the         *)
(* environment.  In each of them the variables of the others stay as they  *)
(* start.                                                                  *)
(***************************************************************************)
EXTENDS Integers, Sequences, FiniteSets, TLC

\* ---- bounds of the model ------------------------------------------------
\* what reaches the server from outside during a run: connection requests,
\* frames and upload requests, counted together
\* (for the page: its clicks, the messages it is sent and the closures of its
\* connections, counted together)
MaxInputs == 5

\* ---- constants of the program -------------------------------------------
DefaultRate == 16000
Int16Max == 32767

Sessions == 1 .. MaxInputs
None == "None"
Files == {"a.wav", "b.wav"}
ErrorText == "Please upload a reference audio file first."
AudioTag == "data:audio/raw;base64,"
ModelRates == {16000, 24000}
\* what the model can give back: a float sample is written as the fraction
\* <<numerator, denominator>>; here the empty waveform and (0.5, -1.0)
Waveforms == {<< >>, << <<1, 2>>, <<-1, 1>> >>}

VARIABLES
  current_reference_audio, \* the global of inference_server.py: None or a path
  MODEL_CACHE,             \* the global of llasa_model.py: FALSE is None, TRUE is loaded
  pc,                      \* where each connection's coroutine stands
  held,                    \* the server holds the connection handle (accepted, not closed)
  link,                    \* the peer's end of the connection is up
  inbox,                   \* frames sent by the client, not yet received by the server
  outbox,                  \* frames sent by the server on each connection
  cur,                     \* the request a coroutine is processing (locals data, text)
  exit,                    \* the path on which a coroutine left its loop
  done,                    \* per connection, the number of requests resolved so far
  last,                    \* per connection, the request resolved last and how it ended
  call,                    \* the last call of generate_audio and the one before it
  returned,                \* what the last call of generate_audio gave its caller
  uploads,                 \* the number of upload requests that reached the server
  pending,                 \* the upload requests whose handler has not run
  response,                \* the answer to the upload that finished last
  lastSuccess,             \* the path of the upload that succeeded last, None if none
  codec,                   \* the codec run alone: samples in, wire string, samples out
  ws,                      \* st.session_state.ws of the page, NoConn for None
  conns,                   \* the state of every connection the page has opened
  mail,                    \* per connection, the messages recv has not yet returned
  sender,                  \* the send_text coroutine and how its last call ended
  listener,                \* the coroutine of main and audio_listener
  received,                \* the message recv returned last and what was done with it
  used                     \* the clicks, messages and closures so far

serverVars == <<current_reference_audio, MODEL_CACHE, pc, held, link, inbox, outbox,
                cur, exit, done, last, call, returned, uploads, pending, response,
                lastSuccess>>

clientVars == <<ws, conns, mail, sender, listener, received, used>>

vars == <<serverVars, codec, clientVars>>

NoFrame == [id |-> 0, json |-> "none", hasText |-> FALSE, text |-> ""]
NoEntry == [req |-> 0, json |-> "none", hasText |-> FALSE, text |-> "",
            route |-> "none", outcome |-> "none", ever |-> FALSE, prev |-> "none"]
NoCall == [sess |-> 0, req |-> 0, ref |-> None, last |-> None, n |-> 0, prev |-> None]
NoResponse == [status |-> "none", file |-> "", overlap |-> FALSE]
NoResult == [status |-> "none", fault |-> "none", samples |-> << >>, rate |-> 0]

\* What a client can put on the wire: a JSON object with a text, with an empty
\* text, without the key "text", or something that is no JSON object.
Payloads ==
  { [json |-> "object", hasText |-> TRUE, text |-> "hello"],
    [json |-> "object", hasText |-> TRUE, text |-> ""],
    [json |-> "object", hasText |-> FALSE, text |-> ""],
    [json |-> "invalid", hasText |-> FALSE, text |-> ""] }

\* ---- pure helpers ---------------------------------------------------------
\* os.path.join("prompts", file.filename)
Path(f) == "prompts/" \o f

\* data.get("text"): None when the key is missing
GetText(data) == IF data.hasText THEN data.text ELSE None

\* `not text`
Falsy(text) == text = None \/ text = ""

\* float -> int16 conversion of one sample: multiply by 32767, drop the fraction
\* (towards zero), keep the low 16 bits as a signed number
AsInt16(x) ==
  LET p == x[1] * Int16Max
      t == IF p >= 0 THEN p \div x[2] ELSE -((-p) \div x[2])
      w == t % 65536
  IN IF w >= 32768 THEN w - 65536 ELSE w

ToPcm(w) == [i \in 1 .. Len(w) |-> AsInt16(w[i])]

\* ---- the audio frame codec -------------------------------------------------
\* A message on the wire is a sequence of characters.
\* f"data:audio/raw;base64,{processed_data}": the prefix, character by character
TagChars ==
  <<"d", "a", "t", "a", ":", "a", "u", "d", "i", "o", "/", "r", "a",
    "w", ";", "b", "a", "s", "e", "6", "4", ",">>

\* the text of send_json({"error": "Please upload a reference audio file first."})
ErrorChars ==
  <<"{", "\"", "e", "r", "r", "o", "r", "\"", ":", "\"", "P", "l", "e",
    "a", "s", "e", " ", "u", "p", "l", "o", "a", "d", " ", "a", " ",
    "r", "e", "f", "e", "r", "e", "n", "c", "e", " ", "a", "u", "d",
    "i", "o", " ", "f", "i", "l", "e", " ", "f", "i", "r", "s", "t",
    ".", "\"", "}">>

\* the base64 alphabet, value v at index v + 1
Alphabet ==
  <<"A", "B", "C", "D", "E", "F", "G", "H", "I", "J", "K", "L", "M", "N", "O", "P",
    "Q", "R", "S", "T", "U", "V", "W", "X", "Y", "Z", "a", "b", "c", "d", "e", "f",
    "g", "h", "i", "j", "k", "l", "m", "n", "o", "p", "q", "r", "s", "t", "u", "v",
    "w", "x", "y", "z", "0", "1", "2", "3", "4", "5", "6", "7", "8", "9", "+", "/">>

Pad == "="

\* faulty variant: the high byte of a sample first
RECURSIVE BigEndianBytes(_)
BigEndianBytes(pcm) ==
  IF pcm = << >> THEN << >>
  ELSE LET u == pcm[1] % 65536
       IN <<u \div 256, u % 256>> \o BigEndianBytes(Tail(pcm))

\* waveform_int16.tobytes(): two bytes a sample, the low byte first
RECURSIVE ToBytes(_)
ToBytes(pcm) ==
  IF pcm = << >> THEN << >>
  ELSE LET u == pcm[1] % 65536
       IN <<u % 256, u \div 256>> \o ToBytes(Tail(pcm))

\* base64.b64encode: three bytes make four characters, a last group of one or
\* two bytes is filled up with "="
RECURSIVE B64Encode(_)
B64Encode(b) ==
  IF b = << >> THEN << >>
  ELSE LET k == IF Len(b) >= 3 THEN 3 ELSE Len(b)
           n == b[1] * 65536 + (IF k >= 2 THEN b[2] * 256 ELSE 0)
                  + (IF k >= 3 THEN b[3] ELSE 0)
           c1 == Alphabet[(n \div 262144) + 1]
           c2 == Alphabet[((n \div 4096) % 64) + 1]
           c3 == IF k >= 2 THEN Alphabet[((n \div 64) % 64) + 1] ELSE Pad
           c4 == IF k >= 3 THEN Alphabet[(n % 64) + 1] ELSE Pad
       IN <<c1, c2, c3, c4>> \o B64Encode(SubSeq(b, k + 1, Len(b)))

\* the wire string of an audio frame, lines 108 to 114 after the conversion
Encode(pcm) == TagChars \o B64Encode(ToBytes(pcm))

\* message.startswith(prefix)
StartsWith(m, prefix) ==
  Len(m) >= Len(prefix) /\ SubSeq(m, 1, Len(prefix)) = prefix

\* message.split(",")[1]: what stands between the first comma and the next
RECURSIVE UpToComma(_)
UpToComma(m) ==
  IF m = << >> \/ m[1] = "," THEN << >> ELSE <<m[1]>> \o UpToComma(Tail(m))

RECURSIVE AfterComma(_)
AfterComma(m) ==
  IF m = << >> THEN << >>
  ELSE IF m[1] = "," THEN UpToComma(Tail(m)) ELSE AfterComma(Tail(m))

Value(c) == IF c = Pad THEN 0 ELSE (CHOOSE i \in 1 .. 64 : Alphabet[i] = c) - 1

\* base64.b64decode on groups of four characters
RECURSIVE B64Decode(_)
B64Decode(c) ==
  IF Len(c) < 4 THEN << >>
  ELSE LET n == Value(c[1]) * 262144 + Value(c[2]) * 4096
                  + Value(c[3]) * 64 + Value(c[4])
           b1 == n \div 65536
           b2 == (n \div 256) % 256
           b3 == n % 256
           g == IF c[3] = Pad THEN <<b1>>
                ELSE IF c[4] = Pad THEN <<b1, b2>> ELSE <<b1, b2, b3>>
       IN g \o B64Decode(SubSeq(c, 5, Len(c)))

\* faulty variant: the two bytes of a sample read as an unsigned number
RECURSIVE FromBytesUnsigned(_)
FromBytesUnsigned(b) ==
  IF Len(b) < 2 THEN << >>
  ELSE <<b[1] + 256 * b[2]>> \o FromBytesUnsigned(SubSeq(b, 3, Len(b)))

\* np.frombuffer(audio_bytes, dtype=np.int16): low byte first, two's complement
RECURSIVE FromBytes(_)
FromBytes(b) ==
  IF Len(b) < 2 THEN << >>
  ELSE LET u == b[1] + 256 * b[2]
       IN <<IF u >= 32768 THEN u - 65536 ELSE u>> \o FromBytes(SubSeq(b, 3, Len(b)))

\* b64decode raises on a broken last group, frombuffer on an odd number of bytes
Decodable(m) ==
  LET c == AfterComma(m)
  IN Len(c) % 4 = 0 /\ Len(B64Decode(c)) % 2 = 0

\* the samples the client takes out of an audio message, lines 98 to 102
Decode(m) == FromBytes(B64Decode(AfterComma(m)))

\* ---- the frames of the server ----------------------------------------------
ErrorFrame(s, id) ==
  [kind |-> "error", sess |-> s, req |-> id, msg |-> ErrorText, pcm |-> << >>,
   wire |-> ErrorChars]

AudioFrame(s, id, w) ==
  [kind |-> "audio", sess |-> s, req |-> id, msg |-> AudioTag, pcm |-> ToPcm(w),
   wire |-> Encode(ToPcm(w))]

\* the event loop's thread is not inside a generate_audio call
LoopFree == \A s \in Sessions : pc[s] # "generating"

FramesSent ==
  LET RECURSIVE Sum(_)
      Sum(S) == IF S = {} THEN 0
                ELSE LET s == CHOOSE x \in S : TRUE
                     IN done[s] + Len(inbox[s])
                        + (IF cur[s] = NoFrame THEN 0 ELSE 1) + Sum(S \ {s})
  IN Sum(Sessions)

\* connections are numbered in the order in which they are requested
Connections == Cardinality({s \in Sessions : pc[s] # "idle"})

Inputs == Connections + FramesSent + uploads

ServerInit ==
  /\ current_reference_audio = None
  /\ MODEL_CACHE = FALSE
  /\ pc = [s \in Sessions |-> "idle"]
  /\ held = [s \in Sessions |-> FALSE]
  /\ link = [s \in Sessions |-> FALSE]
  /\ inbox = [s \in Sessions |-> << >>]
  /\ outbox = [s \in Sessions |-> << >>]
  /\ cur = [s \in Sessions |-> NoFrame]
  /\ exit = [s \in Sessions |-> "open"]
  /\ done = [s \in Sessions |-> 0]
  /\ last = [s \in Sessions |-> NoEntry]
  /\ call = NoCall
  /\ returned = NoResult
  /\ uploads = 0
  /\ pending = {}
  /\ response = NoResponse
  /\ lastSuccess = None

\* the codec before it is given anything
NoCodec == [phase |-> "idle", samples |-> << >>, rate |-> 0, wire |-> << >>,
            out |-> << >>, outRate |-> 0]

\* st.session_state.ws = None
NoConn == 0

\* the connections one page can open: one in main, one for every click
Conns == 1 .. MaxInputs + 1

NoMessage == [kind |-> "none", wire |-> << >>]
NoSend == [pc |-> "idle", dropped |-> FALSE, fresh |-> NoConn, outcome |-> "none",
           on |-> NoConn]
NoListen == [pc |-> "main", conn |-> NoConn, wait |-> 0, why |-> "none"]
NoReceipt == [kind |-> "none", wire |-> << >>, effect |-> "none", samples |-> << >>,
              rate |-> 0]

\* the page after its first run: no handle, the background thread not yet run
ClientInit ==
  /\ ws = NoConn
  /\ conns = [c \in Conns |-> "none"]
  /\ mail = [c \in Conns |-> << >>]
  /\ sender = NoSend
  /\ listener = NoListen
  /\ received = NoReceipt
  /\ used = 0

Init == ServerInit /\ codec = NoCodec /\ ClientInit

\* ---- the clients and the network -----------------------------------------
ClientConnect(s) ==
  /\ UNCHANGED <<codec, clientVars>>
  /\ Inputs < MaxInputs
  /\ pc[s] = "idle"
  /\ s = Connections + 1
  /\ pc' = [pc EXCEPT ![s] = "accepting"]
  /\ link' = [link EXCEPT ![s] = TRUE]
  /\ UNCHANGED <<current_reference_audio, MODEL_CACHE, held, inbox, outbox, cur,
                 exit, done, last, call, returned, uploads, pending, response,
                 lastSuccess>>

\* the client sends one frame; its id is its position among the frames of the
\* connection, so every request of a run carries a distinct tag (s, id)
ClientSend(s, p) ==
  /\ UNCHANGED <<codec, clientVars>>
  /\ pc[s] \in {"ready", "generating"}
  /\ link[s]
  /\ Inputs < MaxInputs
  /\ LET id == done[s] + Len(inbox[s]) + (IF cur[s] = NoFrame THEN 0 ELSE 1) + 1
     IN inbox' = [inbox EXCEPT ![s] =
                    Append(@, [id |-> id, json |-> p.json, hasText |-> p.hasText,
                               text |-> p.text])]
  /\ UNCHANGED <<current_reference_audio, MODEL_CACHE, pc, held, link, outbox, cur,
                 exit, done, last, call, returned, uploads, pending, response,
                 lastSuccess>>

\* the peer goes away, or the network drops the connection
ClientDrop(s) ==
  /\ UNCHANGED <<codec, clientVars>>
  /\ pc[s] \in {"ready", "generating"}
  /\ link[s]
  /\ link' = [link EXCEPT ![s] = FALSE]
  /\ UNCHANGED <<current_reference_audio, MODEL_CACHE, pc, held, inbox, outbox, cur,
                 exit, done, last, call, returned, uploads, pending, response,
                 lastSuccess>>

\* ---- websocket_endpoint ---------------------------------------------------
\* await websocket.accept()
Accept(s) ==
  /\ UNCHANGED <<codec, clientVars>>
  /\ LoopFree
  /\ pc[s] = "accepting"
  /\ pc' = [pc EXCEPT ![s] = "ready"]
  /\ held' = [held EXCEPT ![s] = TRUE]
  /\ UNCHANGED <<current_reference_audio, MODEL_CACHE, link, inbox, outbox, cur,
                 exit, done, last, call, returned, uploads, pending, response,
                 lastSuccess>>

\* faulty variant: the newest frame is handed over first
DequeueNewest(q) == [frame |-> q[Len(q)], rest |-> SubSeq(q, 1, Len(q) - 1)]
\* receive_json hands over the frames of a connection oldest first
Dequeue(q) == [frame |-> Head(q), rest |-> Tail(q)]

\* faulty variant: without `if not text: continue`
RouteNoTextCheck(data, ref) ==
  IF data.json # "object" THEN "raise"
  ELSE IF ref = None THEN "error"
  ELSE "generate"
\* faulty variant: without the check `current_reference_audio is None`
RouteNoBindingCheck(data, ref) ==
  IF data.json # "object" THEN "raise"
  ELSE IF Falsy(GetText(data)) THEN "drop"
  ELSE "generate"
\* what the loop body does with a received frame, given the binding it reads
Route(data, ref) ==
  IF data.json # "object" THEN "raise"
  ELSE IF Falsy(GetText(data)) THEN "drop"
  ELSE IF ref = None THEN "error"
  ELSE "generate"

\* faulty variant: every coroutine sends on one shared connection, the oldest open
SharedWebsocket(s) ==
  CHOOSE t \in Sessions : held[t] /\ \A u \in Sessions : held[u] => t <= u
\* the connection a coroutine sends on: its own parameter `websocket`
Websocket(s) == s

\* faulty variant: an exception of one connection ends the coroutines of all
TerminatedAll(s) == Sessions
\* the coroutines an exception raised in the coroutine of s ends: the try block
\* is inside the handler of the connection, so its own
Terminated(s) == {s}

\* faulty variant: the loop is left without closing the connection
NoRelease(h, T) == h
\* finally: await websocket.close()
Release(h, T) == [t \in Sessions |-> IF t \in T THEN FALSE ELSE h[t]]

\* faulty variant: the empty waveform is not recognised
NeverEmpty(w) == FALSE
\* waveform.size == 0
IsEmpty(w) == Len(w) = 0

\* except Exception / finally: the coroutine of s leaves its loop
Leave(s, why) ==
  /\ pc' = [t \in Sessions |-> IF t \in Terminated(s) THEN "closed" ELSE pc[t]]
  /\ held' = Release(held, Terminated(s))
  /\ link' = [t \in Sessions |-> IF t \in Terminated(s) THEN FALSE ELSE link[t]]
  /\ exit' = [t \in Sessions |-> IF t \in Terminated(s) THEN why ELSE exit[t]]

\* a resolved request: the frame, what the loop body did with it, how it ended,
\* whether an upload had succeeded before the body looked at the binding, and
\* how the request before it ended.
\* A request is resolved when the loop body is through with it: it went back to
\* receive_json, or it left the loop.
Entry(f, route, outcome, ever, prev) ==
  [req |-> f.id, json |-> f.json, hasText |-> f.hasText, text |-> f.text,
   route |-> route, outcome |-> outcome, ever |-> ever, prev |-> prev]

Resolved(s, f, route, outcome, ever) ==
  /\ last' = [last EXCEPT ![s] = Entry(f, route, outcome, ever, last[s].outcome)]
  /\ done' = [done EXCEPT ![s] = @ + 1]

\* one pass of the loop, from the return of receive_json to the next await or
\* to the entry of generate_audio
Receive(s) ==
  /\ UNCHANGED <<codec, clientVars>>
  /\ LoopFree
  /\ pc[s] = "ready"
  /\ UNCHANGED <<current_reference_audio, MODEL_CACHE, returned, uploads, pending, response, lastSuccess>>
  /\ IF inbox[s] = << >>
     THEN \* receive_json raises: the peer is gone
          /\ ~link[s]
          /\ Leave(s, "receive")
          /\ UNCHANGED <<inbox, outbox, cur, done, last, call>>
     ELSE LET d == Dequeue(inbox[s])
              f == d.frame
              ref == current_reference_audio
              r == Route(f, ref)
              ever == lastSuccess # None
          IN /\ inbox' = [inbox EXCEPT ![s] = d.rest]
             /\ CASE r = "raise" ->
                       /\ Leave(s, "request")
                       /\ Resolved(s, f, r, "fault", ever)
                       /\ UNCHANGED <<outbox, cur, call>>
                  [] r = "drop" ->
                       /\ Resolved(s, f, r, "dropped", ever)
                       /\ UNCHANGED <<pc, held, link, exit, outbox, cur, call>>
                  [] r = "error" ->
                       IF link[Websocket(s)]
                       THEN /\ outbox' = [outbox EXCEPT ![Websocket(s)] =
                                            Append(@, ErrorFrame(s, f.id))]
                            /\ Resolved(s, f, r, "error", ever)
                            /\ UNCHANGED <<pc, held, link, exit, cur, call>>
                       ELSE /\ Leave(s, "send")
                            /\ Resolved(s, f, r, "fault", ever)
                            /\ UNCHANGED <<outbox, cur, call>>
                  [] r = "generate" ->
                       /\ pc' = [pc EXCEPT ![s] = "generating"]
                       /\ cur' = [cur EXCEPT ![s] = f]
                       /\ call' = [sess |-> s, req |-> f.id, ref |-> ref,
                                   last |-> lastSuccess, n |-> call.n + 1,
                                   prev |-> call.ref]
                       /\ UNCHANGED <<held, link, exit, outbox, done, last>>

\* ---- llasa_model.py -------------------------------------------------------
\* get_model: the first call loads the model, which can fail
get_model(cache, loadOk) ==
  [raised |-> ~cache /\ ~loadOk, cache |-> cache \/ loadOk]

\* generate_audio: get_model is called before the try block; what the try
\* block catches becomes (empty array, 16000)
generate_audio(text, ref, cache, loadOk, bodyOk, w, rate) ==
  LET m == get_model(cache, loadOk)
  IN IF m.raised
     THEN [cache |-> m.cache,
           result |-> [status |-> "raised", fault |-> "load", samples |-> << >>,
                       rate |-> 0]]
     ELSE IF bodyOk
     THEN [cache |-> m.cache,
           result |-> [status |-> "returned", fault |-> "none", samples |-> w,
                       rate |-> rate]]
     ELSE [cache |-> m.cache,
           result |-> [status |-> "returned", fault |-> "body", samples |-> << >>,
                       rate |-> DefaultRate]]

\* generate_audio returns or raises, and the loop body runs on to its next await
GenerateReturn(s) ==
  /\ UNCHANGED <<codec, clientVars>>
  /\ pc[s] = "generating"
  /\ UNCHANGED <<current_reference_audio, inbox, call, uploads, pending, response,
                 lastSuccess>>
  /\ cur' = [cur EXCEPT ![s] = NoFrame]
  /\ \E loadOk \in BOOLEAN, bodyOk \in BOOLEAN, w \in Waveforms, rate \in ModelRates :
       LET f == cur[s]
           ref == call.ref
           ever == call.last # None
           g == generate_audio(GetText(f), ref, MODEL_CACHE, loadOk, bodyOk, w, rate)
           res == g.result
       IN /\ MODEL_CACHE' = g.cache
          /\ returned' = res
          /\ IF res.status = "raised"
             THEN /\ Leave(s, "generation")
                  /\ Resolved(s, f, "generate", "fault", ever)
                  /\ UNCHANGED outbox
             ELSE IF IsEmpty(res.samples)
             THEN /\ pc' = [pc EXCEPT ![s] = "ready"]
                  /\ Resolved(s, f, "generate", "silent", ever)
                  /\ UNCHANGED <<held, link, exit, outbox>>
             ELSE IF link[Websocket(s)]
             THEN /\ pc' = [pc EXCEPT ![s] = "ready"]
                  /\ outbox' = [outbox EXCEPT ![Websocket(s)] =
                                  Append(@, AudioFrame(s, f.id, res.samples))]
                  /\ Resolved(s, f, "generate", "audio", ever)
                  /\ UNCHANGED <<held, link, exit>>
             ELSE /\ Leave(s, "send")
                  /\ Resolved(s, f, "generate", "fault", ever)
                  /\ UNCHANGED outbox

\* ---- upload_reference_audio -----------------------------------------------
\* an upload request reaches the server; its handler has not run yet
UploadArrive(f) ==
  /\ UNCHANGED <<codec, clientVars>>
  /\ Inputs < MaxInputs
  /\ uploads' = uploads + 1
  /\ pending' = pending \cup {[file |-> f, overlap |-> ~LoopFree]}
  /\ UNCHANGED <<current_reference_audio, MODEL_CACHE, pc, held, link, inbox, outbox,
                 cur, exit, done, last, call, returned, response, lastSuccess>>

\* faulty variant: the binding is set only while it is unset
KeepFirstBinding(old, path) == IF old = None THEN path ELSE old
\* current_reference_audio = file_path
NewBinding(old, path) == path

\* faulty variant: the binding is assigned before the file is read and written
BoundBeforeWrite(old, path) == path
\* faulty variant: the except branch clears the binding
ClearedOnFailure(old, path) == None
\* the binding after `await file.read()` or the write raised: the assignment of
\* line 59 comes after both, so it has not run
BindingOnFailure(old, path) == old

\* the handler runs: the read and the write succeed and the binding is set, or
\* one of them raises and the handler answers with status "error".  The handler
\* shares nothing but the binding, which it writes in its last stretch, so its
\* suspension in `await file.read()` is not a state of its own.
UploadFinish(u, ok) ==
  /\ UNCHANGED <<codec, clientVars>>
  /\ LoopFree
  /\ u \in pending
  /\ pending' = pending \ {u}
  /\ response' = [status |-> IF ok THEN "success" ELSE "error", file |-> u.file,
                  overlap |-> u.overlap]
  /\ lastSuccess' = IF ok THEN Path(u.file) ELSE lastSuccess
  /\ current_reference_audio' =
       IF ok THEN NewBinding(current_reference_audio, Path(u.file))
       ELSE BindingOnFailure(current_reference_audio, Path(u.file))
  /\ UNCHANGED <<MODEL_CACHE, pc, held, link, inbox, outbox, cur, exit, done, last, call,
                 returned, uploads>>

Next ==
  \/ \E s \in Sessions : ClientConnect(s)
  \/ \E s \in Sessions, p \in Payloads : ClientSend(s, p)
  \/ \E s \in Sessions : ClientDrop(s)
  \/ \E s \in Sessions : Accept(s)
  \/ \E s \in Sessions : Receive(s)
  \/ \E s \in Sessions : GenerateReturn(s)
  \/ \E f \in Files : UploadArrive(f)
  \/ \E u \in pending, ok \in BOOLEAN : UploadFinish(u, ok)

Spec == Init /\ [][Next]_vars

\* ---- the codec alone -------------------------------------------------------
\* The two ends of the codec applied to int16 samples of every kind: the server's
\* lines 111 to 114 on one side, the page's lines 97 to 106 on the other.
MaxLen == 3

\* the extremes of int16, the values around zero and around the byte boundary
SampleValues == {-32768, -257, -1, 0, 1, 255, 256, 32767}

SampleSeqs == UNION {[1 .. n -> SampleValues] : n \in 0 .. MaxLen}

InitCodec ==
  /\ ServerInit
  /\ ClientInit
  /\ codec \in {[phase |-> "input", samples |-> s, rate |-> r, wire |-> << >>,
                 out |-> << >>, outRate |-> 0] : s \in SampleSeqs, r \in ModelRates}

\* the server's side: the sample rate is not put on the wire
CodecEncode ==
  /\ codec.phase = "input"
  /\ codec' = [codec EXCEPT !.phase = "encoded", !.wire = Encode(codec.samples)]
  /\ UNCHANGED <<serverVars, clientVars>>

\* the page's side: sf.write is given the rate 16000
CodecDecode ==
  /\ codec.phase = "encoded"
  /\ StartsWith(codec.wire, TagChars)
  /\ Decodable(codec.wire)
  /\ codec' = [codec EXCEPT !.phase = "decoded", !.out = Decode(codec.wire),
                            !.outRate = DefaultRate]
  /\ UNCHANGED <<serverVars, clientVars>>

NextCodec == CodecEncode \/ CodecDecode

SpecCodec == InitCodec /\ [][NextCodec]_vars

\* ---- inference_client_webrtc.py -------------------------------------------
\* One page.  The script thread runs send_text on a click; the background thread
\* runs main and then audio_listener.  Both use st.session_state.ws, and a step
\* is what one of them does between two points where the other can run.
\* A connection is "open", then "closing" when the peer or the network has ended
\* it but ws.closed is still False, then "closed".
IdlePoll == 1
Backoff == 2
PlayRate == 16000

\* what can arrive on a connection: an audio message, the error message of the
\* server, and an audio message whose payload is one byte
ServerMessages ==
  { [kind |-> "audio", wire |-> Encode(<<16383, -32767>>)],
    [kind |-> "error", wire |-> ErrorChars],
    [kind |-> "broken", wire |-> TagChars \o <<"A", "A", Pad, Pad>>] }

\* connections are numbered in the order in which they are opened
NextConn == CHOOSE c \in Conns : conns[c] = "none" /\ \A d \in 1 .. c - 1 : conns[d] # "none"

\* `st.session_state.ws is None or st.session_state.ws.closed`
Absent(h) == h = NoConn \/ conns[h] = "closed"

\* a click on "Generate Speech" with a text: send_text starts and looks at the handle
SendTextStart ==
  /\ used < MaxInputs
  /\ sender.pc = "idle"
  /\ used' = used + 1
  /\ sender' = [pc |-> IF Absent(ws) THEN "connecting" ELSE "sending",
                dropped |-> sender.outcome = "sent" /\ conns[sender.on] # "open",
                fresh |-> NoConn, outcome |-> "none", on |-> NoConn]
  /\ UNCHANGED <<serverVars, codec, ws, conns, mail, listener, received>>

\* websockets.connect returns or raises; a raise ends the call in st.error
SendTextConnect(ok) ==
  /\ sender.pc = "connecting"
  /\ IF ok
     THEN /\ conns' = [conns EXCEPT ![NextConn] = "open"]
          /\ ws' = NextConn
          /\ sender' = [sender EXCEPT !.pc = "sending", !.fresh = NextConn]
     ELSE /\ sender' = [sender EXCEPT !.pc = "idle", !.outcome = "refused"]
          /\ UNCHANGED <<ws, conns>>
  /\ UNCHANGED <<serverVars, codec, mail, listener, received, used>>

\* st.session_state.ws.send(...): the handle is read again; every exception ends
\* in st.error, and nothing is assigned to the handle
SendTextSend ==
  /\ sender.pc = "sending"
  /\ sender' = [sender EXCEPT
       !.pc = "idle",
       !.outcome = IF ws = NoConn THEN "nohandle"
                   ELSE IF conns[ws] = "open" THEN "sent" ELSE "closed",
       !.on = IF ws # NoConn /\ conns[ws] = "open" THEN ws ELSE NoConn]
  /\ UNCHANGED <<serverVars, codec, ws, conns, mail, listener, received, used>>

\* main: `if st.session_state.ws is None`
MainStart ==
  /\ listener.pc = "main"
  /\ listener' = [listener EXCEPT !.pc = IF ws = NoConn THEN "connecting" ELSE "check"]
  /\ UNCHANGED <<serverVars, codec, ws, conns, mail, sender, received, used>>

\* main: websockets.connect returns or raises, and audio_listener starts
MainConnect(ok) ==
  /\ listener.pc = "connecting"
  /\ listener' = [listener EXCEPT !.pc = "check"]
  /\ IF ok
     THEN /\ conns' = [conns EXCEPT ![NextConn] = "open"]
          /\ ws' = NextConn
     ELSE UNCHANGED <<ws, conns>>
  /\ UNCHANGED <<serverVars, codec, mail, sender, received, used>>

\* faulty variant: the loop is left when the connection is found closed
StopOnClosed(l) == [pc |-> "stopped", conn |-> NoConn, wait |-> 0, why |-> "closed"]
\* except ConnectionClosed: the warning, then asyncio.sleep(2)
OnClosed(l) == [pc |-> "sleep", conn |-> NoConn, wait |-> Backoff, why |-> "closed"]

\* except Exception: st.error, then asyncio.sleep(2)
OnError(l) == [pc |-> "sleep", conn |-> NoConn, wait |-> Backoff, why |-> "error"]

\* no connection: asyncio.sleep(1) and continue
OnAbsent(l) == [pc |-> "sleep", conn |-> NoConn, wait |-> IdlePoll, why |-> "idle"]

\* the top of the loop: without a connection sleep, else call recv on the handle
ListenerCheck ==
  /\ listener.pc = "check"
  /\ listener' = IF Absent(ws) THEN OnAbsent(listener)
                 ELSE [pc |-> "recv", conn |-> ws, wait |-> 0, why |-> "none"]
  /\ UNCHANGED <<serverVars, codec, ws, conns, mail, sender, received, used>>

\* what the body does with a message: only a message with the audio prefix has
\* a branch
Handle(m) ==
  IF StartsWith(m.wire, TagChars)
  THEN IF Decodable(m.wire)
       THEN [kind |-> m.kind, wire |-> m.wire, effect |-> "played",
             samples |-> Decode(m.wire), rate |-> PlayRate]
       ELSE [kind |-> m.kind, wire |-> m.wire, effect |-> "raised",
             samples |-> << >>, rate |-> 0]
  ELSE [kind |-> m.kind, wire |-> m.wire, effect |-> "ignored",
        samples |-> << >>, rate |-> 0]

\* recv returns a message or raises ConnectionClosed; it waits while the
\* connection has nothing and is not closed
ListenerRecv ==
  /\ listener.pc = "recv"
  /\ LET c == listener.conn
     IN IF mail[c] # << >>
        THEN /\ mail' = [mail EXCEPT ![c] = Tail(@)]
             /\ received' = Handle(Head(mail[c]))
             /\ listener' = IF received'.effect = "raised" THEN OnError(listener)
                            ELSE [pc |-> "check", conn |-> NoConn, wait |-> 0,
                                  why |-> "none"]
             /\ UNCHANGED ws
        ELSE /\ conns[c] = "closed"
             /\ ws' = NoConn
             /\ listener' = OnClosed(listener)
             /\ UNCHANGED <<mail, received>>
  /\ UNCHANGED <<serverVars, codec, conns, sender, used>>

\* asyncio.sleep returns and the loop goes on
ListenerWake ==
  /\ listener.pc = "sleep"
  /\ listener' = [pc |-> "check", conn |-> NoConn, wait |-> 0, why |-> "none"]
  /\ UNCHANGED <<serverVars, codec, ws, conns, mail, sender, received, used>>

\* the server sends a message on an open connection
ServerMessage(c, m) ==
  /\ used < MaxInputs
  /\ conns[c] = "open"
  /\ used' = used + 1
  /\ mail' = [mail EXCEPT ![c] = Append(@, m)]
  /\ UNCHANGED <<serverVars, codec, ws, conns, sender, listener, received>>

\* the server or the network ends a connection
PeerClose(c) ==
  /\ used < MaxInputs
  /\ conns[c] = "open"
  /\ used' = used + 1
  /\ conns' = [conns EXCEPT ![c] = "closing"]
  /\ UNCHANGED <<serverVars, codec, ws, mail, sender, listener, received>>

\* the library has finished closing: ws.closed is True from now on
CloseDone(c) ==
  /\ conns[c] = "closing"
  /\ conns' = [conns EXCEPT ![c] = "closed"]
  /\ UNCHANGED <<serverVars, codec, ws, mail, sender, listener, received, used>>

NextClient ==
  \/ SendTextStart
  \/ \E ok \in BOOLEAN : SendTextConnect(ok)
  \/ SendTextSend
  \/ MainStart
  \/ \E ok \in BOOLEAN : MainConnect(ok)
  \/ ListenerCheck
  \/ ListenerRecv
  \/ ListenerWake
  \/ \E c \in Conns, m \in ServerMessages : ServerMessage(c, m)
  \/ \E c \in Conns : PeerClose(c)
  \/ \E c \in Conns : CloseDone(c)

SpecClient == Init /\ [][NextClient]_vars

\* ---- the claims -----------------------------------------------------------
\* the step resolves a request of connection s
Resolves(s) == done'[s] = done[s] + 1

\* the request of entry e carries a non-empty text
NonEmptyText(e) == e.json = "object" /\ e.hasText /\ e.text # ""

\* the request of entry e carries an empty text or no text
EmptyText(e) == e.json = "object" /\ (~e.hasText \/ e.text = "")

\* the last call of generate_audio was made for entry e of connection s
CalledFor(s, e) == call.sess = s /\ call.req = e.req

\* C1: while the generation call of one connection is in progress, every other
\* connection can take its next step: be accepted, or receive its next frame (or
\* learn that its peer is gone) and act on it.
C1_OthersProgress ==
  \A s, t \in Sessions :
    (s # t /\ pc[s] = "generating") =>
      /\ pc[t] = "accepting" => ENABLED Accept(t)
      /\ (pc[t] = "ready" /\ (inbox[t] # << >> \/ ~link[t])) => ENABLED Receive(t)

\* C2: per connection, requests are resolved one at a time in arrival order: the
\* k-th request resolved is the k-th that arrived, the request in progress is the
\* next one, the frames not yet read are exactly the later ones, and the
\* responses sent are in the order of their requests, one at most per request.
C2_InOrder ==
  \A s \in Sessions :
    LET busy == IF cur[s] = NoFrame THEN 0 ELSE 1
    IN /\ last[s] # NoEntry => last[s].req = done[s]
       /\ cur[s] # NoFrame => cur[s].id = done[s] + 1
       /\ \A i \in 1 .. Len(inbox[s]) : inbox[s][i].id = done[s] + busy + i
       /\ \A i \in 1 .. Len(outbox[s]) : outbox[s][i].req <= done[s]
       /\ \A i, j \in 1 .. Len(outbox[s]) : i < j => outbox[s][i].req < outbox[s][j].req

C2_Witness ==
  \E s \in Sessions :
    /\ done[s] = 2
    /\ Len(outbox[s]) = 2
    /\ outbox[s][1].req = 1
    /\ outbox[s][2].req = 2

\* C3: every frame on a connection was produced for a request of that connection.
C3_NoCrossDelivery ==
  \A s \in Sessions : \A i \in 1 .. Len(outbox[s]) : outbox[s][i].sess = s

C3_Witness ==
  \E s, t \in Sessions :
    /\ s # t
    /\ outbox[s] # << >> /\ outbox[s][1].kind = "audio"
    /\ outbox[t] # << >> /\ outbox[t][1].kind = "audio"

\* C4 as stated: when no upload has ever succeeded, the step that resolves a
\* request with a non-empty text sends exactly the one ErrorFrame with the fixed
\* message, makes no call of the gateway, and leaves the connection open in Ready.
C4_ErrorFrameAlways ==
  [][\A s \in Sessions :
       (Resolves(s) /\ NonEmptyText(last'[s]) /\ ~last'[s].ever) =>
         /\ outbox'[s] = Append(outbox[s], ErrorFrame(s, last'[s].req))
         /\ ErrorFrame(s, last'[s].req).msg = "Please upload a reference audio file first."
         /\ call' = call /\ ~CalledFor(s, last'[s])
         /\ pc'[s] = "ready" /\ held'[s]]_vars

\* C4 as amended: the same while the connection is up when the ErrorFrame is sent;
\* when the send faults no frame is emitted, the gateway is still not called, and
\* the connection is closed and released.
C4_ErrorFrameUnlessSendFault ==
  [][\A s \in Sessions :
       (Resolves(s) /\ NonEmptyText(last'[s]) /\ ~last'[s].ever) =>
         /\ call' = call /\ ~CalledFor(s, last'[s])
         /\ IF link[s]
            THEN /\ outbox'[s] = Append(outbox[s], ErrorFrame(s, last'[s].req))
                 /\ ErrorFrame(s, last'[s].req).msg
                      = "Please upload a reference audio file first."
                 /\ pc'[s] = "ready" /\ held'[s]
            ELSE /\ outbox'[s] = outbox[s]
                 /\ pc'[s] = "closed" /\ ~held'[s]]_vars

C4_Witness ==
  \E s \in Sessions :
    /\ NonEmptyText(last[s]) /\ ~last[s].ever
    /\ last[s].outcome = "error"
    /\ outbox[s] # << >> /\ outbox[s][Len(outbox[s])] = ErrorFrame(s, last[s].req)
    /\ pc[s] = "ready"

\* C5: the step that resolves a request whose text is empty or missing sends no
\* frame, makes no call of the gateway, and leaves the connection open in Ready,
\* with or without a bound reference voice.
C5_EmptyTextSilent ==
  [][\A s \in Sessions :
       (Resolves(s) /\ EmptyText(last'[s])) =>
         /\ outbox' = outbox
         /\ call' = call /\ ~CalledFor(s, last'[s])
         /\ pc'[s] = "ready" /\ held'[s] /\ exit'[s] = "open"]_vars

C5_Witness ==
  \E s, t \in Sessions :
    /\ s # t
    /\ EmptyText(last[s]) /\ last[s].outcome = "dropped" /\ last[s].ever
    /\ ~last[s].hasText
    /\ EmptyText(last[t]) /\ last[t].outcome = "dropped" /\ ~last[t].ever
    /\ last[t].hasText
    /\ pc[s] = "ready" /\ pc[t] = "ready"

\* the step in which the generate_audio call of connection s ends
GenerationEnds(s) == pc[s] = "generating" /\ pc'[s] # "generating"

\* C6: when the gateway returns an empty sample sequence, the connection sends no
\* frame for that request and is open in Ready afterwards.
C6_EmptyResultSilent ==
  [][\A s \in Sessions :
       (GenerationEnds(s) /\ returned'.status = "returned" /\ returned'.samples = << >>) =>
         /\ outbox' = outbox
         /\ pc'[s] = "ready" /\ held'[s] /\ exit'[s] = "open"
         /\ Resolves(s) /\ last'[s].req = cur[s].id]_vars

\* a connection that got nothing for one request has been served the next one
C6_Witness ==
  \E s \in Sessions :
    /\ last[s].prev = "silent"
    /\ last[s].outcome = "audio"
    /\ Len(outbox[s]) = 1 /\ outbox[s][1].req = 2

\* C7: generate never raises to its caller, and on an internal failure it returns
\* the empty sample sequence with rate 16000.
C7_NoPropagation ==
  /\ returned.status # "raised"
  /\ \A s \in Sessions : exit[s] # "generation"
  /\ returned.fault # "none" => (returned.samples = << >> /\ returned.rate = 16000)

\* the step is a failure of connection s: it leaves its loop, or its generation failed
FailureOf(s) ==
  \/ pc[s] # "closed" /\ pc'[s] = "closed"
  \/ GenerationEnds(s) /\ returned'.fault # "none"

\* C8: a failure of one connection changes nothing of any other connection, and a
\* connection waiting to be accepted is accepted as soon as the event loop runs.
C8_FailureContained ==
  /\ [](\A t \in Sessions : (pc[t] = "accepting" /\ LoopFree) => ENABLED Accept(t))
  /\ [][\A s \in Sessions :
          FailureOf(s) =>
            \A t \in Sessions \ {s} :
              /\ pc'[t] = pc[t] /\ held'[t] = held[t] /\ link'[t] = link[t]
              /\ exit'[t] = exit[t] /\ inbox'[t] = inbox[t] /\ outbox'[t] = outbox[t]
              /\ cur'[t] = cur[t] /\ done'[t] = done[t] /\ last'[t] = last[t]]_vars

C8_Witness ==
  \E s, t \in Sessions :
    /\ s # t
    /\ pc[s] = "closed" /\ exit[s] \in {"request", "send", "generation"}
    /\ pc[t] = "ready" /\ held[t] /\ link[t] /\ done[t] = 1

\* C9: a closed connection is never held, whatever the path it was closed on.
C9_ClosedReleased ==
  \A s \in Sessions : pc[s] = "closed" => ~held[s]

C9_Witness ==
  \E s, t \in Sessions :
    /\ pc[s] = "closed" /\ exit[s] = "generation" /\ ~held[s]
    /\ pc[t] = "closed" /\ exit[t] \in {"send", "receive"} /\ ~held[t]

\* C10: the reference path given to a call of generate is the path of the upload
\* that succeeded last before the call.
C10_LastWriteWins ==
  (call.n > 0 /\ call.last # None) => call.ref = call.last

\* a second upload arrived while a generation was in flight, succeeded, and the
\* next call was made with its path instead of the earlier one
C10_Witness ==
  /\ call.n = 2
  /\ call.prev # None /\ call.prev # call.ref
  /\ response.status = "success" /\ response.overlap
  /\ call.ref = Path(response.file)

\* the generate_audio call of connection s returns a waveform that is not empty
ReturnsAudio(s) ==
  GenerationEnds(s) /\ returned'.status = "returned" /\ returned'.samples # << >>

\* the step appends exactly one frame, for the request in progress, to the frames
\* of connection s, and that frame is an audio message
OneAudioFrame(s) ==
  /\ Len(outbox'[s]) = Len(outbox[s]) + 1
  /\ SubSeq(outbox'[s], 1, Len(outbox[s])) = outbox[s]
  /\ \A t \in Sessions \ {s} : outbox'[t] = outbox[t]
  /\ outbox'[s][Len(outbox'[s])].kind = "audio"
  /\ outbox'[s][Len(outbox'[s])].req = cur[s].id
  /\ StartsWith(outbox'[s][Len(outbox'[s])].wire, TagChars)

\* the integers d are the numbers of the waveform w (fractions), one for one
SameNumbers(d, w) ==
  Len(d) = Len(w) /\ \A i \in 1 .. Len(w) : d[i] * w[i][2] = w[i][1]

\* C11 as stated: a non-empty result s of the gateway yields exactly one audio
\* frame with the prefix whose decoded samples are s, and the connection is Ready.
C11_DecodedEqualsResult ==
  [][\A s \in Sessions :
       ReturnsAudio(s) =>
         /\ OneAudioFrame(s)
         /\ SameNumbers(Decode(outbox'[s][Len(outbox'[s])].wire), returned'.samples)
         /\ pc'[s] = "ready"]_vars

\* C11, amended: while the connection is up the one audio frame decodes to the
\* samples of s times 32767, cut to whole numbers and kept in 16 bits, and the
\* connection is Ready; when the send faults there is no frame and it is closed.
C11_DecodedIsScaledResult ==
  [][\A s \in Sessions :
       ReturnsAudio(s) =>
         IF link[s]
         THEN /\ OneAudioFrame(s)
              /\ Decode(outbox'[s][Len(outbox'[s])].wire) = ToPcm(returned'.samples)
              /\ pc'[s] = "ready" /\ held'[s]
         ELSE /\ outbox' = outbox
              /\ pc'[s] = "closed" /\ ~held'[s]]_vars

\* a request was answered with the audio frame of the waveform (1/2, -1)
C11_Witness ==
  \E s \in Sessions :
    /\ pc[s] = "ready" /\ last[s].outcome = "audio" /\ outbox[s] # << >>
    /\ returned.samples = << <<1, 2>>, <<-1, 1>> >>
    /\ call.sess = s /\ call.req = last[s].req
    /\ outbox[s][Len(outbox[s])].req = last[s].req
    /\ Decode(outbox[s][Len(outbox[s])].wire) = <<16383, -32767>>

\* C12: decoding the wire string of a sample sequence gives back that sequence,
\* the same samples in the same order, the empty sequence included.
C12_RoundTrip ==
  /\ codec.phase = "decoded" => codec.out = codec.samples
  /\ codec.phase = "encoded" =>
       (StartsWith(codec.wire, TagChars) /\ Decodable(codec.wire))

\* a sequence of the two extremes and a value past the byte boundary came back
C12_Witness ==
  /\ codec.phase = "decoded"
  /\ codec.samples = <<-32768, 256, 32767>>
  /\ codec.out = <<-32768, 256, 32767>>

\* C17: an upload that fails answers with status "error", leaves the binding as
\* it was, and changes nothing of any connection.
C17_FailedUploadNoEffect ==
  [][(uploads' = uploads /\ pending' # pending /\ response'.status # "success") =>
       /\ response'.status = "error"
       /\ current_reference_audio' = current_reference_audio
       /\ UNCHANGED <<pc, held, link, inbox, outbox, cur, exit, done, last, call>>]_vars

\* an upload failed while a voice was bound and a connection was open
C17_Witness ==
  /\ response.status = "error"
  /\ current_reference_audio # None
  /\ current_reference_audio # Path(response.file)
  /\ \E s \in Sessions : pc[s] = "ready" /\ held[s]

\* C19: once an upload has succeeded the binding is never unset again, and no
\* request looked at after that is answered with the ErrorFrame.
C19_BindingNeverReset ==
  /\ lastSuccess # None => current_reference_audio # None
  /\ \A s \in Sessions :
       last[s].ever => (last[s].outcome # "error" /\ last[s].route # "error")

\* after a successful upload a later upload failed, and a request looked at after
\* both was answered with audio
C19_Witness ==
  /\ lastSuccess # None
  /\ response.status = "error"
  /\ \E s \in Sessions :
       /\ last[s].ever /\ last[s].outcome = "audio" /\ last[s].prev = "error"
       /\ call.sess = s /\ call.req = last[s].req /\ uploads = 2 /\ pending = {}

\* C20: generate is never called with an unset reference path: the check of the
\* binding and the read of the argument are in one stretch of the coroutine.
C20_NeverCalledUnbound ==
  /\ call.n > 0 => call.ref # None
  /\ \A s \in Sessions : pc[s] = "generating" => current_reference_audio # None

\* a call was made while an upload was waiting for the event loop
C20_Witness ==
  /\ call.n > 0 /\ call.ref # None
  /\ pending # {}
  /\ \E s \in Sessions : pc[s] = "generating" /\ call.sess = s

\* C13: the page never has two open connections at once.
C13_OneOpenConnection ==
  Cardinality({c \in Conns : conns[c] = "open"}) <= 1

\* C14: a send_text call made after the connection of the last successful send
\* has dropped, with the server reachable and the new connection staying up,
\* ends with its text sent on a connection opened in that call.
C14_ReconnectsAfterDrop ==
  (/\ sender.pc = "idle" /\ sender.dropped
   /\ sender.outcome # "refused"
   /\ ~(sender.fresh # NoConn /\ sender.outcome = "closed")) =>
    (sender.outcome = "sent" /\ sender.fresh # NoConn /\ sender.on = sender.fresh)

\* C15: the step in which a send or a recv finds the connection closed sets the
\* handle to None, and a call that starts without a handle connects.
C15_ClosedNullsHandle ==
  [][/\ (sender.pc = "sending" /\ sender'.outcome = "closed") => ws' = NoConn
     /\ (listener.pc = "recv" /\ listener'.why = "closed") => ws' = NoConn
     /\ (sender.pc = "idle" /\ sender'.pc # "idle" /\ ws = NoConn) =>
          sender'.pc = "connecting"]_vars

\* C16: every message recv returns is handled: an audio message is decoded and
\* played, an error message is shown.
C16_EveryFrameHandled ==
  /\ received.kind = "audio" =>
       (received.effect = "played" /\ received.samples = Decode(received.wire))
  /\ received.kind = "error" => received.effect = "surfaced"

\* C18: the loop of audio_listener is never left: without a connection it calls
\* no recv and sleeps 1; after a closure it sets the handle to None and sleeps 2;
\* after another exception it sleeps 2; after every sleep it is at the top of the
\* loop again, however often that has happened.
C18_ListenerNeverStops ==
  [][/\ listener'.pc \in {"main", "connecting", "check", "recv", "sleep"}
     /\ (listener.pc = "check" /\ listener' # listener) =>
          IF ws = NoConn \/ conns[ws] = "closed"
          THEN /\ listener'.pc = "sleep" /\ listener'.wait = 1
               /\ listener'.conn = NoConn /\ mail' = mail
          ELSE listener'.pc = "recv" /\ listener'.conn = ws
     /\ (listener.pc = "recv" /\ listener'.why = "closed") =>
          (ws' = NoConn /\ listener'.pc = "sleep" /\ listener'.wait = 2)
     /\ (listener.pc = "recv" /\ listener'.why = "error") =>
          (listener'.pc = "sleep" /\ listener'.wait = 2)
     /\ (listener.pc = "sleep" /\ listener' # listener) =>
          (listener'.pc = "check" /\ ws' = ws /\ mail' = mail)]_vars

\* after an exception in the body and a sleep, the loop has found its connection
\* closed, has set the handle to None and sleeps 2
C18_Witness ==
  /\ listener.pc = "sleep" /\ listener.why = "closed" /\ listener.wait = 2
  /\ ws = NoConn
  /\ received.effect = "raised"
====
